---- MODULE Spec2Model ----
(***************************************************************************)
(* ClipboardGuard: the monitor loop (clipboardguard/monitor.py), its trust *)
(* chain, the trust database (trust_db.py), the pattern detector           *)
(* (detector.py), the attribution heuristics (attributor.py) and the       *)
(* user-intent timestamp (user_intent.py).                                 *)
(*                                                                         *)
(* A clipboard text is a sequence of words; the empty sequence is "".      *)
(* A process name or path is a sequence of one-character strings.          *)
(* CPU seconds are counted in tenths of a second.                          *)
(***************************************************************************)
EXTENDS Integers, Sequences, FiniteSets, TLC

VARIABLES
    clipboard,          \* the system clipboard (pyperclip)
    last,               \* ClipboardGuardCore._last, the baseline
    running,            \* ClipboardGuardCore.running
    pc,                 \* where the monitor thread is in start()
    current,            \* start(): the local `current`
    auto_terminate,     \* config.AUTO_TERMINATE
    pretrusted,         \* ClipboardGuardCore._pretrusted
    trusted_hashes,     \* trust_db._trusted_hashes: 0 is None, else a set object
    heap,               \* the set objects trust_db has created
    trust_file,         \* the content of trusted_clipboard.json
    now,                \* time.time()
    last_user_copy_ts,  \* user_intent._last_user_copy_ts, 0 before any gesture
    resp,               \* what each collaborator of _should_accept_new answered this tick
    accepted,           \* what _should_accept_new returned this tick
    before,             \* identify_suspects: the first snapshot
    filtered,           \* start(): the local `filtered`
    events,             \* the rows log_event appended during this tick
    notes,              \* the notifications _notify was asked to show during this tick
    writes,             \* the values the monitor wrote to the clipboard during this tick
    procOps,            \* the process-control calls of this tick
    crash,              \* the call whose exception left start(), or "none"
    tpc,                \* trust_db callers: position in add_trusted
    th,                 \* add_trusted: the local `th` (a set object)
    lockHolder,         \* trust_db._lock: 0 is free
    tval,               \* trust_db callers: the value passed to add_trusted
    saveFailed,         \* trust_db callers: save_trusted swallowed an exception
    stop_called,        \* stop() has been called on this monitor
    api,                \* a direct caller of trust_db, detector or attributor: its last
                        \* call and what the call returned
    current_modifiers   \* user_intent._current_modifiers

vars == <<clipboard, last, running, pc, current, auto_terminate, pretrusted,
          trusted_hashes, heap, trust_file, now, last_user_copy_ts, resp, accepted,
          before, filtered, events, notes, writes, procOps, crash, tpc, th, lockHolder,
          tval, saveFailed, stop_called, api, current_modifiers>>

monitorVars == <<clipboard, last, running, pc, current, auto_terminate,
                 pretrusted, now, last_user_copy_ts, resp, accepted, before, filtered,
                 events, notes, writes, procOps, crash>>

trustVars == <<trusted_hashes, heap, trust_file>>

callerVars == <<tpc, th, lockHolder, tval, saveFailed, stop_called, api,
                current_modifiers>>

-----------------------------------------------------------------------------
(* Bounds of the model *)

\* time.time() stops advancing here
MaxTime == 3

-----------------------------------------------------------------------------
(* config.py *)

ATTRIBUTION_TOP_K == 3

USER_COPY_WINDOW == 1

PatternTypes == <<"crypto_address", "email", "jwt">>

\* a word and what the rules of each pattern group match in it: <<group, matched
\* text>>; the jwt rule matches the dotted part of an address with two dots
WordPatterns(w) ==
    CASE w = "0xAA" -> {<<"crypto_address", "0xAA">>}
      [] w = "0xBB" -> {<<"crypto_address", "0xBB">>}
      [] w = "a@b.cc" -> {<<"email", "a@b.cc">>}
      [] w = "x@y.z.io" -> {<<"email", "x@y.z.io">>, <<"jwt", "y.z.io">>}
      [] OTHER -> {}

EMPTY == <<>>
HELLO == <<"hello">>
ADDR_A == <<"0xAA">>
ADDR_B == <<"0xBB">>

\* the texts a process, or the user, puts on the clipboard
ClipTexts == {HELLO, ADDR_A, ADDR_B}

\* what `pyperclip.paste() or ""` can return
Texts == ClipTexts \cup {EMPTY}

-----------------------------------------------------------------------------
(* detector.py *)

RECURSIVE MatchesOfType(_, _)
MatchesOfType(ptype, text) ==
    IF text = <<>> THEN <<>>
    ELSE (IF \E m \in WordPatterns(Head(text)) : m[1] = ptype
          THEN <<CHOOSE m \in WordPatterns(Head(text)) : m[1] = ptype>>
          ELSE <<>>)
         \o MatchesOfType(ptype, Tail(text))

RECURSIVE MatchesFrom(_, _)
MatchesFrom(i, text) ==
    IF i > Len(PatternTypes) THEN <<>>
    ELSE MatchesOfType(PatternTypes[i], text) \o MatchesFrom(i + 1, text)

find_sensitive_matches(text) ==
    IF text = <<>> THEN <<>> ELSE MatchesFrom(1, text)

MatchedStrings(matches) == {matches[i][2] : i \in DOMAIN matches}

\* is_suspicious_change that compares the lists of matches, not the sets of strings
is_suspicious_change_lists(prev_text, new_text) ==
    LET prev_matches == find_sensitive_matches(prev_text)
        new_matches == find_sensitive_matches(new_text)
    IN  IF new_matches = <<>> THEN <<FALSE, <<>>>>
        ELSE IF prev_matches # <<>> /\ prev_matches # new_matches
             THEN <<TRUE, new_matches>>
        ELSE IF prev_matches = <<>> /\ new_matches # <<>>
             THEN <<TRUE, new_matches>>
        ELSE <<FALSE, new_matches>>

\* <<suspicious, new_matches>>
is_suspicious_change(prev_text, new_text) ==
    LET prev_matches == find_sensitive_matches(prev_text)
        new_matches == find_sensitive_matches(new_text)
    IN  IF new_matches = <<>> THEN <<FALSE, <<>>>>
        ELSE IF prev_matches # <<>>
                /\ MatchedStrings(prev_matches) # MatchedStrings(new_matches)
             THEN <<TRUE, new_matches>>
        ELSE IF prev_matches = <<>> /\ new_matches # <<>>
             THEN <<TRUE, new_matches>>
        ELSE <<FALSE, new_matches>>

TypesOf(matches) == [i \in DOMAIN matches |-> matches[i][1]]

-----------------------------------------------------------------------------
(* Process names and paths: sequences of one-character strings *)

UpperAlpha == <<"A","B","C","D","E","F","G","H","I","J","K","L","M",
                "N","O","P","Q","R","S","T","U","V","W","X","Y","Z">>

LowerAlpha == <<"a","b","c","d","e","f","g","h","i","j","k","l","m",
                "n","o","p","q","r","s","t","u","v","w","x","y","z">>

\* str.lower() on one character
LowerChar(c) ==
    IF \E i \in DOMAIN UpperAlpha : UpperAlpha[i] = c
    THEN LowerAlpha[CHOOSE i \in DOMAIN UpperAlpha : UpperAlpha[i] = c]
    ELSE c

\* str.lower()
Lower(s) == [i \in DOMAIN s |-> LowerChar(s[i])]

\* `sub in s` on strings
Contains(sub, s) ==
    \E k \in 0..(Len(s) - Len(sub)) : SubSeq(s, k + 1, k + Len(sub)) = sub

PathSeparators == {"/", "\\"}

\* os.path.basename: what follows the last separator
Basename(path) ==
    LET seps == {i \in DOMAIN path : path[i] \in PathSeparators}
    IN  IF seps = {} THEN path
        ELSE SubSeq(path, (CHOOSE i \in seps : \A j \in seps : j <= i) + 1, Len(path))

WHITELIST_NAMES == {
    <<"e", "x", "p", "l", "o", "r", "e", "r", ".", "e", "x", "e">>,
    <<"S", "y", "s", "t", "e", "m">>,
    <<"I", "d", "l", "e">>,
    <<"s", "v", "c", "h", "o", "s", "t", ".", "e", "x", "e">> }

\* ClipboardGuardCore._is_whitelisted
IsWhitelistedNameOnly(name, exe) ==
    IF name = <<>> /\ exe = <<>> THEN FALSE
    ELSE \E w \in WHITELIST_NAMES : Contains(Lower(w), Lower(name))

IsWhitelisted(name, exe) ==
    IF name = <<>> /\ exe = <<>> THEN FALSE
    ELSE LET name_l == Lower(name)
             exe_basename == Lower(Basename(exe))
         IN  \E w \in WHITELIST_NAMES :
                Contains(Lower(w), name_l) \/ Lower(w) = exe_basename

-----------------------------------------------------------------------------
(* The processes of the machine *)

\* os.getpid() of the monitor
SelfPid == 1

Pids == {1, 2, 3, 4, 5}

ProcName(pid) ==
    CASE pid = 1 -> <<"p", "y", "t", "h", "o", "n", ".", "e", "x", "e">>
      [] pid = 2 -> <<"E", "x", "p", "l", "o", "r", "e", "r", ".", "E", "X", "E">>
      [] pid = 3 -> <<"e", "v", "i", "l", ".", "e", "x", "e">>
      [] pid = 4 -> <<"s", "v", "c">>
      [] pid = 5 -> <<>>

ProcExe(pid) ==
    CASE pid = 1 -> <<"C", ":", "\\", "p", "y", "\\", "p", "y", "t", "h", "o", "n", ".", "e", "x", "e">>
      [] pid = 2 -> <<>>
      [] pid = 3 -> <<"C", ":", "\\", "t", "m", "p", "\\", "e", "v", "i", "l", ".", "e", "x", "e">>
      [] pid = 4 -> <<"C", ":", "\\", "W", "i", "n", "d", "o", "w", "s", "\\", "s", "v", "c", "h", "o", "s", "t", ".", "e", "x", "e">>
      [] pid = 5 -> <<>>

\* _is_whitelisted on the names and paths of this machine, computed once
WhitelistTable ==
    [name \in {ProcName(p) : p \in Pids}, exe \in {ProcExe(p) : p \in Pids} |->
        IsWhitelisted(name, exe)]

is_whitelisted(name, exe) == WhitelistTable[name, exe]

Metric(pid, w, c) ==
    [pid |-> pid, name |-> ProcName(pid), exe |-> ProcExe(pid),
     write_bytes |-> w, cpu_time |-> c]

\* snapshot_processes(): pid -> metrics, of the processes that could be inspected
SnapA ==
    (1 :> Metric(1, 0, 0)) @@ (2 :> Metric(2, 3000, 50)) @@ (3 :> Metric(3, 0, 0))
    @@ (4 :> Metric(4, 0, 0))

SnapB ==
    (1 :> Metric(1, 5000, 10)) @@ (2 :> Metric(2, 4000, 60)) @@ (3 :> Metric(3, 1000, 5))
    @@ (4 :> Metric(4, 2000, 0)) @@ (5 :> Metric(5, 1000, 0))

Snapshots == {SnapA, SnapB}

-----------------------------------------------------------------------------
(* attributor.py *)

\* max() that returns its second argument
MaxSecond(a, b) == b

Max(a, b) == IF a >= b THEN a ELSE b

Min(a, b) == IF a <= b THEN a ELSE b

\* dict.get(pid, {}).get(field, 0)
FieldOr0(snap, pid, field) == IF pid \in DOMAIN snap THEN snap[pid][field] ELSE 0

\* a.get(field) or b.get(field) or ""
FieldOrEmpty(a, b, pid, field) ==
    IF pid \in DOMAIN a /\ a[pid][field] # <<>> THEN a[pid][field]
    ELSE IF pid \in DOMAIN b /\ b[pid][field] # <<>> THEN b[pid][field]
    ELSE <<>>

\* compute_deltas, before the sort: one candidate per pid of either snapshot
Candidates(b, a) ==
    { [pid |-> pid,
       name |-> FieldOrEmpty(a, b, pid, "name"),
       exe |-> FieldOrEmpty(a, b, pid, "exe"),
       delta_write |-> Max(0, FieldOr0(a, pid, "write_bytes") - FieldOr0(b, pid, "write_bytes")),
       delta_cpu |-> Max(0, FieldOr0(a, pid, "cpu_time") - FieldOr0(b, pid, "cpu_time"))]
      : pid \in (DOMAIN b) \cup (DOMAIN a) }

\* a sort key of delta_write alone
RanksByWrite(x, y) == x.delta_write >= y.delta_write

\* the sort key (delta_write, delta_cpu), reverse=True
RanksNotBelow(x, y) ==
    \/ x.delta_write > y.delta_write
    \/ x.delta_write = y.delta_write /\ x.delta_cpu >= y.delta_cpu

\* the orders a descending sort can leave the candidates S in; candidates with
\* equal keys keep the iteration order of a set of pids, which is any order
RECURSIVE SortedOrders(_)
SortedOrders(S) ==
    IF S = {} THEN {<<>>}
    ELSE UNION { { <<x>> \o s : s \in SortedOrders(S \ {x}) }
                 : x \in {y \in S : \A z \in S : RanksNotBelow(y, z)} }

\* compute_deltas
compute_deltas(b, a) == SortedOrders(Candidates(b, a))

\* identify_suspects: deltas[:top_k]
identify_suspects(b, a, top_k) ==
    { SubSeq(s, 1, Min(top_k, Len(s))) : s \in compute_deltas(b, a) }

\* start(): the loop that drops the monitor itself and whitelisted processes
RECURSIVE FilterSuspects(_)
FilterSuspects(suspects) ==
    IF suspects = <<>> THEN <<>>
    ELSE LET s == Head(suspects)
         IN  (IF s.pid = SelfPid \/ is_whitelisted(s.name, s.exe) THEN <<>> ELSE <<s>>)
             \o FilterSuspects(Tail(suspects))

\* start(): suspect_info, with the sentinel when nothing is left
SuspectInfo(flt) == IF flt = <<>> THEN <<"unknown_or_whitelisted">> ELSE flt

-----------------------------------------------------------------------------
(* trust_db.py *)

\* _hash_value: the sha256 hex digest of the text
Hash(val) == <<"sha256", val>>

\* list(hashes): the elements in some order
ToList(S) ==
    CHOOSE s \in [1..Cardinality(S) -> S] : \A i, j \in DOMAIN s : i # j => s[i] # s[j]

\* set(list)
ToSet(l) == {l[i] : i \in DOMAIN l}

\* the file after a complete json.dump({"hashes": list(hashes)})
ValidFile(hashes) == [kind |-> "valid", hashes |-> ToList(hashes)]

\* the file after open(_TRUST_FILE, 'w') and before json.dump has finished
TruncatedFile == [kind |-> "truncated", hashes |-> <<>>]

MissingFile == [kind |-> "missing", hashes |-> <<>>]

\* a file that json.load rejects
CorruptFile == [kind |-> "corrupt", hashes |-> <<>>]

\* load_trusted that reads nothing back
load_trusted_nothing(file) == {}

\* load_trusted: the set of the hashes listed, or the empty set when the file is
\* missing or json.load fails
load_trusted(file) == IF file.kind = "valid" THEN ToSet(file.hashes) ELSE {}

\* the trust database as one value: the global, the set objects, the file
Store == [ref |-> trusted_hashes, heap |-> heap, file |-> trust_file]

\* get_trusted_hashes, run without interruption; obj is the set load_trusted creates
get_trusted_hashes(st, obj) ==
    IF st.ref = 0
    THEN [st EXCEPT !.ref = obj, !.heap[obj] = load_trusted(st.file)]
    ELSE st

\* the effects open() and json.dump() can have on the file
SaveOutcomes == {"ok", "open_failed", "dump_failed"}

\* save_trusted, run without interruption
save_trusted(st, hashes, outcome) ==
    CASE outcome = "ok" -> [st EXCEPT !.file = ValidFile(hashes)]
      [] outcome = "open_failed" -> st
      [] outcome = "dump_failed" -> [st EXCEPT !.file = TruncatedFile]

\* add_trusted that rebuilds the set from the new hash alone
add_trusted_replaces(st, value, obj, outcome) ==
    LET h == Hash(value)
        g == get_trusted_hashes(st, obj)
    IN  IF h \notin g.heap[g.ref]
        THEN LET g2 == [g EXCEPT !.heap[g.ref] = {h}]
             IN  save_trusted(g2, g2.heap[g2.ref], outcome)
        ELSE g

\* add_trusted that stores the text itself
add_trusted_plain(st, value, obj, outcome) ==
    LET g == get_trusted_hashes(st, obj)
    IN  IF value \notin g.heap[g.ref]
        THEN LET g2 == [g EXCEPT !.heap[g.ref] = @ \cup {value}]
             IN  save_trusted(g2, g2.heap[g2.ref], outcome)
        ELSE g

\* add_trusted, run without interruption
add_trusted(st, value, obj, outcome) ==
    LET h == Hash(value)
        g == get_trusted_hashes(st, obj)
    IN  IF h \notin g.heap[g.ref]
        THEN LET g2 == [g EXCEPT !.heap[g.ref] = @ \cup {h}]
             IN  save_trusted(g2, g2.heap[g2.ref], outcome)
        ELSE g

\* is_trusted: <<result, the database afterwards>>
is_trusted(st, value, obj) ==
    LET g == get_trusted_hashes(st, obj)
    IN  <<Hash(value) \in g.heap[g.ref], g>>

\* the set is_trusted consults: the cache, or what the first load will make of the file
TrustSet(st) == IF st.ref = 0 THEN load_trusted(st.file) ELSE st.heap[st.ref]

SetStore(st) ==
    /\ trusted_hashes' = st.ref
    /\ heap' = st.heap
    /\ trust_file' = st.file

-----------------------------------------------------------------------------
(* user_intent.py *)

\* was_recent_user_copy without the test for "no copy seen yet"
was_recent_user_copy_unguarded == (now - last_user_copy_ts) <= USER_COPY_WINDOW

was_recent_user_copy ==
    IF last_user_copy_ts = 0 THEN FALSE
    ELSE (now - last_user_copy_ts) <= USER_COPY_WINDOW

\* the keys the listener tells apart (either Ctrl key is "ctrl"), and any other key
Keys == {"ctrl", "insert", "c", "other"}

\* the names _current_modifiers can hold
ModifierNames == {"ctrl", "insert", "c"}

\* _on_release_inner: the set held Ctrl with C, or Ctrl with Insert
CopyComboHeld ==
    \/ "ctrl" \in current_modifiers /\ "c" \in current_modifiers
    \/ "ctrl" \in current_modifiers /\ "insert" \in current_modifiers

-----------------------------------------------------------------------------
(* monitor.py: ClipboardGuardCore *)

\* the set object the monitor thread's first load creates
MonitorObj == 1

NoResp == [store |-> "-", pretrusted |-> "-", intent |-> "-", confirm |-> "-", add |-> "-"]

\* a row of the log: log_event(event, prev, new, det_types)
Event(kind, prev, new, types, suspects, extra) ==
    [kind |-> kind, prev |-> prev, new |-> new, types |-> types,
     suspects |-> suspects, sentinel |-> (kind = "suspicious_change" /\ suspects = <<>>),
     extra |-> extra]

\* start(): `suspicious, new_matches = is_suspicious_change(self._last, current)`
suspicious == is_suspicious_change(last, current)[1]

new_matches == is_suspicious_change(last, current)[2]

\* start(): where a tick goes once the new value was not accepted
AfterReject == IF suspicious THEN "attribute" ELSE "reread"

\* the call named raised and nothing caught it
Crash(call) ==
    /\ pc' = "crashed"
    /\ crash' = call

\* the outcomes of add_trusted inside _should_accept_new: it returns, having saved
\* or not, or it raises and the exception is swallowed
AddOutcomes == SaveOutcomes \cup {"raise"}

TryAdd(outcome) ==
    IF outcome = "raise" THEN UNCHANGED trustVars
    ELSE SetStore(add_trusted(Store, current, MonitorObj, outcome))

\* __init__ has run; start() sets running and enters the loop
Start ==
    /\ pc = "constructed"
    /\ running' = TRUE
    /\ pc' = "sleep"
    /\ UNCHANGED <<clipboard, last, current, auto_terminate, pretrusted, now,
                   last_user_copy_ts, resp, accepted, before, filtered, events, notes,
                   writes, procOps, crash, trustVars, callerVars>>

\* stop(), called while the loop runs
Stop ==
    /\ pc \notin {"constructed", "stopped", "crashed"}
    /\ running
    /\ running' = FALSE
    /\ stop_called' = TRUE
    /\ UNCHANGED <<clipboard, last, pc, current, auto_terminate, pretrusted, now,
                   last_user_copy_ts, resp, accepted, before, filtered, events, notes,
                   writes, procOps, crash, trustVars, tpc, th, lockHolder, tval,
                   saveFailed, api, current_modifiers>>

\* stop(), called by another thread before the thread that runs start() has
\* executed `self.running = True`
StopEarly ==
    /\ pc = "constructed"
    /\ ~stop_called
    /\ running' = FALSE
    /\ stop_called' = TRUE
    /\ UNCHANGED <<clipboard, last, pc, current, auto_terminate, pretrusted, now,
                   last_user_copy_ts, resp, accepted, before, filtered, events, notes,
                   writes, procOps, crash, trustVars, tpc, th, lockHolder, tval,
                   saveFailed, api, current_modifiers>>

\* a loop that tests `self.running` wherever the tick stands
LoopExitAnywhere ==
    /\ pc \notin {"constructed", "stopped", "crashed"}
    /\ ~running
    /\ pc' = "stopped"
    /\ UNCHANGED <<clipboard, last, running, current, auto_terminate, pretrusted, now,
                   last_user_copy_ts, resp, accepted, before, filtered, events, notes,
                   writes, procOps, crash, trustVars, callerVars>>

\* `while self.running` found false
LoopExit ==
    /\ pc = "sleep"
    /\ ~running
    /\ pc' = "stopped"
    /\ UNCHANGED <<clipboard, last, running, current, auto_terminate, pretrusted, now,
                   last_user_copy_ts, resp, accepted, before, filtered, events, notes,
                   writes, procOps, crash, trustVars, callerVars>>

\* a tick head that goes on as if the clipboard had changed
TickReadNoCompare(ok) ==
    /\ pc = "sleep"
    /\ running
    /\ LET cur == IF ok THEN clipboard ELSE <<>>
           cls == is_suspicious_change(last, cur)
       IN  /\ current' = cur
           /\ pc' = IF cls[2] # <<>> THEN "rule1"
                    ELSE IF cls[1] THEN "attribute"
                    ELSE "reread"
    /\ resp' = NoResp
    /\ accepted' = "none"
    /\ before' = <<>>
    /\ filtered' = <<>>
    /\ events' = <<>>
    /\ notes' = <<>>
    /\ writes' = <<>>
    /\ procOps' = <<>>
    /\ UNCHANGED <<clipboard, last, running, auto_terminate, pretrusted, now,
                   last_user_copy_ts, crash, trustVars, callerVars>>

\* the head of a tick: the loop condition, pyperclip.paste() and the comparison
\* with the baseline
TickRead(ok) ==
    /\ pc = "sleep"
    /\ running
    /\ LET cur == IF ok THEN clipboard ELSE <<>>
           cls == is_suspicious_change(last, cur)
       IN  /\ current' = cur
           /\ pc' = IF cur = last THEN "sleep"
                    ELSE IF cls[2] # <<>> THEN "rule1"
                    ELSE IF cls[1] THEN "attribute"
                    ELSE "reread"
    /\ resp' = NoResp
    /\ accepted' = "none"
    /\ before' = <<>>
    /\ filtered' = <<>>
    /\ events' = <<>>
    /\ notes' = <<>>
    /\ writes' = <<>>
    /\ procOps' = <<>>
    /\ UNCHANGED <<clipboard, last, running, auto_terminate, pretrusted, now,
                   last_user_copy_ts, crash, trustVars, callerVars>>

\* _should_accept_new, rule 1: is_trusted(new_text)
Rule1(raises) ==
    /\ pc = "rule1"
    /\ IF raises
       THEN /\ resp' = [resp EXCEPT !.store = "raise"]
            /\ pc' = "rule2"
            /\ UNCHANGED <<accepted, trustVars>>
       ELSE LET r == is_trusted(Store, current, MonitorObj)
            IN  /\ SetStore(r[2])
                /\ resp' = [resp EXCEPT !.store = IF r[1] THEN "hit" ELSE "miss"]
                /\ accepted' = IF r[1] THEN "yes" ELSE accepted
                /\ pc' = IF r[1] THEN "accept" ELSE "rule2"
    /\ UNCHANGED <<clipboard, last, running, current, auto_terminate, pretrusted, now,
                   last_user_copy_ts, before, filtered, events, notes, writes, procOps,
                   crash, callerVars>>

\* rule 2 without its `return True`: a hit falls through to rule 3
Rule2Continues ==
    /\ pc = "rule2"
    /\ LET hit == \E i \in DOMAIN pretrusted : pretrusted[i] = current
       IN  /\ resp' = [resp EXCEPT !.pretrusted = IF hit THEN "hit" ELSE "miss"]
           /\ accepted' = IF hit THEN "yes" ELSE accepted
           /\ pc' = "rule3"
    /\ UNCHANGED <<clipboard, last, running, current, auto_terminate, pretrusted, now,
                   last_user_copy_ts, before, filtered, events, notes, writes, procOps,
                   crash, trustVars, callerVars>>

\* _should_accept_new, rule 2: new_text in self._pretrusted
Rule2 ==
    /\ pc = "rule2"
    /\ LET hit == \E i \in DOMAIN pretrusted : pretrusted[i] = current
       IN  /\ resp' = [resp EXCEPT !.pretrusted = IF hit THEN "hit" ELSE "miss"]
           /\ accepted' = IF hit THEN "yes" ELSE accepted
           /\ pc' = IF hit THEN "accept" ELSE "rule3"
    /\ UNCHANGED <<clipboard, last, running, current, auto_terminate, pretrusted, now,
                   last_user_copy_ts, before, filtered, events, notes, writes, procOps,
                   crash, trustVars, callerVars>>

\* rule 3 without its try/except: an exception of was_recent_user_copy leaves
\* _should_accept_new
Rule3Propagates(raises, outcome) ==
    /\ pc = "rule3"
    /\ IF raises
       THEN /\ resp' = [resp EXCEPT !.intent = "raise"]
            /\ Crash("was_recent_user_copy")
            /\ UNCHANGED <<accepted, trustVars>>
       ELSE IF was_recent_user_copy
       THEN /\ TryAdd(outcome)
            /\ resp' = [resp EXCEPT !.intent = "yes", !.add = outcome]
            /\ accepted' = "yes"
            /\ pc' = "accept"
            /\ UNCHANGED crash
       ELSE /\ resp' = [resp EXCEPT !.intent = "no"]
            /\ pc' = "rule4"
            /\ UNCHANGED <<accepted, trustVars, crash>>
    /\ UNCHANGED <<clipboard, last, running, current, auto_terminate, pretrusted, now,
                   last_user_copy_ts, before, filtered, events, notes, writes, procOps,
                   callerVars>>

\* _should_accept_new, rule 3: was_recent_user_copy(), then add_trusted
Rule3(raises, outcome) ==
    /\ pc = "rule3"
    /\ IF raises
       THEN /\ resp' = [resp EXCEPT !.intent = "raise"]
            /\ pc' = "rule4"
            /\ UNCHANGED <<accepted, trustVars>>
       ELSE IF was_recent_user_copy
       THEN /\ TryAdd(outcome)
            /\ resp' = [resp EXCEPT !.intent = "yes", !.add = outcome]
            /\ accepted' = "yes"
            /\ pc' = "accept"
       ELSE /\ resp' = [resp EXCEPT !.intent = "no"]
            /\ pc' = "rule4"
            /\ UNCHANGED <<accepted, trustVars>>
    /\ UNCHANGED <<clipboard, last, running, current, auto_terminate, pretrusted, now,
                   last_user_copy_ts, before, filtered, events, notes, writes, procOps,
                   crash, callerVars>>

\* _should_accept_new, rule 4: ask_user_trust_prompt opens the dialog, or tkinter
\* fails and the prompt answers False
Rule4(available) ==
    /\ pc = "rule4"
    /\ IF available
       THEN /\ pc' = "prompt"
            /\ UNCHANGED <<resp, accepted>>
       ELSE /\ resp' = [resp EXCEPT !.confirm = "unavailable"]
            /\ accepted' = "no"
            /\ pc' = AfterReject
    /\ UNCHANGED <<clipboard, last, running, current, auto_terminate, pretrusted, now,
                   last_user_copy_ts, before, filtered, events, notes, writes, procOps,
                   crash, trustVars, callerVars>>

\* the user answers the dialog
PromptAnswer(answer, outcome) ==
    /\ pc = "prompt"
    /\ IF answer
       THEN /\ TryAdd(outcome)
            /\ resp' = [resp EXCEPT !.confirm = "yes", !.add = outcome]
            /\ accepted' = "yes"
            /\ pc' = "accept"
       ELSE /\ resp' = [resp EXCEPT !.confirm = "no"]
            /\ accepted' = "no"
            /\ pc' = AfterReject
            /\ UNCHANGED trustVars
    /\ UNCHANGED <<clipboard, last, running, current, auto_terminate, pretrusted, now,
                   last_user_copy_ts, before, filtered, events, notes, writes, procOps,
                   crash, callerVars>>

\* start(): the accepted branch: log_event, self._last = current, sleep, continue
Accept(logged) ==
    /\ pc = "accept"
    /\ IF logged
       THEN /\ events' = Append(events, Event("accepted_trusted", last, current,
                                              TypesOf(new_matches), <<>>, <<>>))
            /\ last' = current
            /\ pc' = "sleep"
            /\ UNCHANGED crash
       ELSE /\ Crash("log_event")
            /\ UNCHANGED <<events, last>>
    /\ UNCHANGED <<clipboard, running, current, auto_terminate, pretrusted, now,
                   last_user_copy_ts, resp, accepted, before, filtered, notes, writes,
                   procOps, trustVars, callerVars>>

\* identify_suspects: the first snapshot; the monitor then sleeps for the window.
\* An exception of the process listing leaves start().
AttributeBegin(raises) ==
    /\ pc = "attribute"
    /\ IF raises
       THEN /\ Crash("identify_suspects")
            /\ UNCHANGED before
       ELSE /\ \E b \in Snapshots : before' = b
            /\ pc' = "window"
            /\ UNCHANGED crash
    /\ UNCHANGED <<clipboard, last, running, current, auto_terminate, pretrusted, now,
                   last_user_copy_ts, resp, accepted, filtered, events, notes, writes,
                   procOps, trustVars, callerVars>>

\* a start() that filters the whole ranking and keeps the first top_k of what is
\* left
AttributeEndFilterFirst(logged) ==
    /\ pc = "window"
    /\ \E a \in Snapshots :
         \E ranking \in compute_deltas(before, a) :
            LET kept == FilterSuspects(ranking)
                flt == SubSeq(kept, 1, Min(ATTRIBUTION_TOP_K, Len(kept)))
            IN  /\ filtered' = flt
                /\ before' = <<>>
                /\ IF logged
                   THEN /\ events' = Append(events, Event("suspicious_change", last, current,
                                                          TypesOf(new_matches), flt, <<>>))
                        /\ notes' = Append(notes, [title |-> "suspicious_change",
                                                   suspects |-> SubSeq(flt, 1, Min(1, Len(flt)))])
                        /\ pc' = "restore"
                        /\ UNCHANGED crash
                   ELSE /\ Crash("log_event")
                        /\ UNCHANGED <<events, notes>>
    /\ UNCHANGED <<clipboard, last, running, current, auto_terminate, pretrusted, now,
                   last_user_copy_ts, resp, accepted, writes, procOps,
                   trustVars, callerVars>>

\* identify_suspects: the second snapshot and the ranking; then start() filters the
\* suspects, logs suspicious_change and notifies
AttributeEnd(logged) ==
    /\ pc = "window"
    /\ \E a \in Snapshots :
         \E suspects \in identify_suspects(before, a, ATTRIBUTION_TOP_K) :
            LET flt == FilterSuspects(suspects)
            IN  /\ filtered' = flt
                /\ before' = <<>>
                /\ IF logged
                   THEN /\ events' = Append(events, Event("suspicious_change", last, current,
                                                          TypesOf(new_matches), flt, <<>>))
                        /\ notes' = Append(notes, [title |-> "suspicious_change",
                                                   suspects |-> SubSeq(flt, 1, Min(1, Len(flt)))])
                        /\ pc' = "restore"
                        /\ UNCHANGED crash
                   ELSE /\ Crash("log_event")
                        /\ UNCHANGED <<events, notes>>
    /\ UNCHANGED <<clipboard, last, running, current, auto_terminate, pretrusted, now,
                   last_user_copy_ts, resp, accepted, writes, procOps,
                   trustVars, callerVars>>

\* a tick that never terminates a suspect
AfterRestoreNever == "reread"

\* start(): where a tick goes after the restore was logged
AfterRestore == IF auto_terminate /\ filtered # <<>> THEN "terminate" ELSE "reread"

\* a restore that writes the baseline back only where the clipboard still holds
\* the value the tick read
RestoreIfUnchanged(restored, logged) ==
    /\ pc = "restore"
    /\ IF restored /\ clipboard = current
       THEN /\ clipboard' = last
            /\ writes' = Append(writes, last)
       ELSE UNCHANGED <<clipboard, writes>>
    /\ notes' = Append(notes, [title |-> IF restored THEN "restored" ELSE "restore_failed",
                               suspects |-> <<>>])
    /\ IF logged
       THEN /\ events' = Append(events,
                            IF restored
                            THEN Event("restored", last, current, TypesOf(new_matches),
                                       <<>>, <<"restored">>)
                            ELSE Event("restore_failed", last, current, TypesOf(new_matches),
                                       <<>>, <<>>))
            /\ pc' = AfterRestore
            /\ UNCHANGED crash
       ELSE /\ Crash("log_event")
            /\ UNCHANGED events
    /\ UNCHANGED <<last, running, current, auto_terminate, pretrusted, now,
                   last_user_copy_ts, resp, accepted, before, filtered, procOps,
                   trustVars, callerVars>>

\* restore_clipboard(self._last), the notification and the restored/restore_failed row
Restore(restored, logged) ==
    /\ pc = "restore"
    /\ IF restored
       THEN /\ clipboard' = last
            /\ writes' = Append(writes, last)
       ELSE UNCHANGED <<clipboard, writes>>
    /\ notes' = Append(notes, [title |-> IF restored THEN "restored" ELSE "restore_failed",
                               suspects |-> <<>>])
    /\ IF logged
       THEN /\ events' = Append(events,
                            IF restored
                            THEN Event("restored", last, current, TypesOf(new_matches),
                                       <<>>, <<"restored">>)
                            ELSE Event("restore_failed", last, current, TypesOf(new_matches),
                                       <<>>, <<>>))
            /\ pc' = AfterRestore
            /\ UNCHANGED crash
       ELSE /\ Crash("log_event")
            /\ UNCHANGED events
    /\ UNCHANGED <<last, running, current, auto_terminate, pretrusted, now,
                   last_user_copy_ts, resp, accepted, before, filtered, procOps,
                   trustVars, callerVars>>

\* what psutil can do to _attempt_terminate
TerminateOutcomes ==
    {"process_not_found", "terminate_raised", "terminated_gracefully", "wait_raised",
     "killed_forcibly", "kill_raised"}

\* _attempt_terminate: the calls made on the process
TerminateCalls(pid, outcome) ==
    CASE outcome = "process_not_found" -> <<>>
      [] outcome = "terminate_raised" -> <<[op |-> "terminate", pid |-> pid]>>
      [] outcome \in {"terminated_gracefully", "wait_raised"} ->
            <<[op |-> "terminate", pid |-> pid], [op |-> "wait", pid |-> pid]>>
      [] outcome \in {"killed_forcibly", "kill_raised"} ->
            <<[op |-> "terminate", pid |-> pid], [op |-> "wait", pid |-> pid],
              [op |-> "kill", pid |-> pid]>>

\* _attempt_terminate: <<ok, status>>
TerminateResult(outcome) ==
    CASE outcome = "process_not_found" -> <<FALSE, "process_not_found">>
      [] outcome = "terminated_gracefully" -> <<TRUE, "terminated_gracefully">>
      [] outcome = "killed_forcibly" -> <<TRUE, "killed_forcibly">>
      [] OTHER -> <<FALSE, "terminate_failed">>

\* start(): terminate the top suspect, notify and log the result
Terminate(outcome, logged) ==
    /\ pc = "terminate"
    /\ LET top_pid == filtered[1].pid
           r == TerminateResult(outcome)
           kind == IF r[1] THEN "terminated" ELSE "terminate_failed"
       IN  /\ procOps' = procOps \o TerminateCalls(top_pid, outcome)
           /\ notes' = Append(notes, [title |-> kind, suspects |-> <<filtered[1]>>])
           /\ IF logged
              THEN /\ events' = Append(events, Event(kind, last, current, <<>>, <<>>,
                                                     <<r[2]>>))
                   /\ pc' = "reread"
                   /\ UNCHANGED crash
              ELSE /\ Crash("log_event")
                   /\ UNCHANGED events
    /\ UNCHANGED <<clipboard, last, running, current, auto_terminate, pretrusted, now,
                   last_user_copy_ts, resp, accepted, before, filtered, writes,
                   trustVars, callerVars>>

\* a tick that ends with `self._last = current`
RereadKeepsCurrent(ok) ==
    /\ pc = "reread"
    /\ last' = current
    /\ pc' = "sleep"
    /\ UNCHANGED <<clipboard, running, current, auto_terminate, pretrusted, now,
                   last_user_copy_ts, resp, accepted, before, filtered, events, notes,
                   writes, procOps, crash, trustVars, callerVars>>

\* start(): `self._last = pyperclip.paste() or ""` at the end of a changed tick
Reread(ok) ==
    /\ pc = "reread"
    /\ last' = IF ok THEN clipboard ELSE <<>>
    /\ pc' = "sleep"
    /\ UNCHANGED <<clipboard, running, current, auto_terminate, pretrusted, now,
                   last_user_copy_ts, resp, accepted, before, filtered, events, notes,
                   writes, procOps, crash, trustVars, callerVars>>

-----------------------------------------------------------------------------
(* The environment of the monitor *)

\* start() is running: what happens around a monitor that has not started, has
\* stopped or has died is not followed
Alive == pc \notin {"constructed", "stopped", "crashed"}

\* another process, or the user, puts a text on the clipboard
ClipboardWrite(v) ==
    /\ Alive
    /\ clipboard # v
    /\ clipboard' = v
    /\ UNCHANGED <<last, running, pc, current, auto_terminate, pretrusted, now,
                   last_user_copy_ts, resp, accepted, before, filtered, events, notes,
                   writes, procOps, crash, trustVars, callerVars>>

\* user_intent._on_release_inner saw Ctrl+C or Ctrl+Insert
UserCopyGesture ==
    /\ Alive
    /\ last_user_copy_ts # now
    /\ last_user_copy_ts' = now
    /\ UNCHANGED <<clipboard, last, running, pc, current, auto_terminate, pretrusted, now,
                   resp, accepted, before, filtered, events, notes, writes, procOps,
                   crash, trustVars, callerVars>>

\* _on_press_inner(key), called by the listener thread
KeyPress(key) ==
    /\ pc \notin {"constructed", "stopped", "crashed"}
    /\ current_modifiers' = current_modifiers \cup ({key} \cap ModifierNames)
    /\ UNCHANGED <<monitorVars, trustVars, tpc, th, lockHolder, tval, saveFailed,
                   stop_called, api>>

\* _on_release_inner(key), called by the listener thread
KeyRelease(key) ==
    /\ pc \notin {"constructed", "stopped", "crashed"}
    /\ last_user_copy_ts' = IF CopyComboHeld THEN now ELSE last_user_copy_ts
    /\ current_modifiers' = current_modifiers \ {key}
    /\ UNCHANGED <<clipboard, last, running, pc, current, auto_terminate, pretrusted, now,
                   resp, accepted, before, filtered, events, notes, writes, procOps,
                   crash, trustVars, tpc, th, lockHolder, tval, saveFailed, stop_called,
                   api>>

\* time passes
TimePasses ==
    /\ Alive
    /\ now < MaxTime
    /\ now' = now + 1
    /\ UNCHANGED <<clipboard, last, running, pc, current, auto_terminate, pretrusted,
                   last_user_copy_ts, resp, accepted, before, filtered, events, notes,
                   writes, procOps, crash, trustVars, callerVars>>

-----------------------------------------------------------------------------
(* trust_db.py, statement by statement: the threads that call add_trusted *)

Callers == {1, 2}

\* the set objects load_trusted can create: one for each thread
ObjIds == {1, 2}

\* add_trusted(value) is called: `h = _hash_value(value)`, then get_trusted_hashes()
AddCall(t, v) ==
    /\ tpc[t] = "idle"
    /\ tpc' = [tpc EXCEPT ![t] = "get"]
    /\ tval' = [tval EXCEPT ![t] = v]
    /\ UNCHANGED <<monitorVars, api, stop_called, current_modifiers, trustVars, th, lockHolder, saveFailed>>

\* get_trusted_hashes: `if _trusted_hashes is None`
GetCheck(t) ==
    /\ tpc[t] = "get"
    /\ tpc' = [tpc EXCEPT ![t] = IF trusted_hashes = 0 THEN "load" ELSE "return"]
    /\ UNCHANGED <<monitorVars, api, stop_called, current_modifiers, trustVars, th, lockHolder, tval, saveFailed>>

\* get_trusted_hashes: load_trusted() builds a new set from the file
GetLoad(t) ==
    /\ tpc[t] = "load"
    /\ heap' = [heap EXCEPT ![t] = load_trusted(trust_file)]
    /\ tpc' = [tpc EXCEPT ![t] = "assign"]
    /\ UNCHANGED <<monitorVars, api, stop_called, current_modifiers, trusted_hashes, trust_file, th, lockHolder, tval, saveFailed>>

\* get_trusted_hashes: `_trusted_hashes = ` the set just built
GetAssign(t) ==
    /\ tpc[t] = "assign"
    /\ trusted_hashes' = t
    /\ tpc' = [tpc EXCEPT ![t] = "return"]
    /\ UNCHANGED <<monitorVars, api, stop_called, current_modifiers, heap, trust_file, th, lockHolder, tval, saveFailed>>

\* get_trusted_hashes: `return _trusted_hashes`, and add_trusted's `th = `
GetReturn(t) ==
    /\ tpc[t] = "return"
    /\ th' = [th EXCEPT ![t] = trusted_hashes]
    /\ tpc' = [tpc EXCEPT ![t] = "member"]
    /\ UNCHANGED <<monitorVars, api, stop_called, current_modifiers, trustVars, lockHolder, tval, saveFailed>>

\* add_trusted: `if h not in th`
AddMember(t) ==
    /\ tpc[t] = "member"
    /\ tpc' = [tpc EXCEPT ![t] = IF Hash(tval[t]) \in heap[th[t]] THEN "done" ELSE "add"]
    /\ UNCHANGED <<monitorVars, api, stop_called, current_modifiers, trustVars, th, lockHolder, tval, saveFailed>>

\* add_trusted: `th.add(h)`
AddInsert(t) ==
    /\ tpc[t] = "add"
    /\ heap' = [heap EXCEPT ![th[t]] = @ \cup {Hash(tval[t])}]
    /\ tpc' = [tpc EXCEPT ![t] = "acquire"]
    /\ UNCHANGED <<monitorVars, api, stop_called, current_modifiers, trusted_hashes, trust_file, th, lockHolder, tval, saveFailed>>

\* save_trusted: `with _lock`
SaveAcquire(t) ==
    /\ tpc[t] = "acquire"
    /\ lockHolder = 0
    /\ lockHolder' = t
    /\ tpc' = [tpc EXCEPT ![t] = "open"]
    /\ UNCHANGED <<monitorVars, api, stop_called, current_modifiers, trustVars, th, tval, saveFailed>>

\* save_trusted: open(_TRUST_FILE, 'w') empties the file, or raises: the lock is
\* released and the exception swallowed
SaveOpen(t, ok) ==
    /\ tpc[t] = "open"
    /\ IF ok
       THEN /\ trust_file' = TruncatedFile
            /\ tpc' = [tpc EXCEPT ![t] = "dump"]
            /\ UNCHANGED <<lockHolder, saveFailed>>
       ELSE /\ lockHolder' = 0
            /\ saveFailed' = [saveFailed EXCEPT ![t] = TRUE]
            /\ tpc' = [tpc EXCEPT ![t] = "done"]
            /\ UNCHANGED trust_file
    /\ UNCHANGED <<monitorVars, api, stop_called, current_modifiers, trusted_hashes, heap, th, tval>>

\* save_trusted: json.dump writes the set as it is now, or fails part-way; the file
\* is closed, the lock released and an exception swallowed
SaveDump(t, ok) ==
    /\ tpc[t] = "dump"
    /\ IF ok
       THEN /\ trust_file' = ValidFile(heap[th[t]])
            /\ UNCHANGED saveFailed
       ELSE /\ trust_file' = TruncatedFile
            /\ saveFailed' = [saveFailed EXCEPT ![t] = TRUE]
    /\ lockHolder' = 0
    /\ tpc' = [tpc EXCEPT ![t] = "done"]
    /\ UNCHANGED <<monitorVars, api, stop_called, current_modifiers, trusted_hashes, heap, th, tval>>

\* add_trusted returns
AddReturn(t) ==
    /\ tpc[t] = "done"
    /\ tpc' = [tpc EXCEPT ![t] = "idle"]
    /\ UNCHANGED <<monitorVars, api, stop_called, current_modifiers, trustVars, th, lockHolder, tval, saveFailed>>

-----------------------------------------------------------------------------
(* _should_accept_new called on its own *)

ChainPcs == {"rule1", "rule2", "rule3", "rule4", "prompt"}

\* _should_accept_new(new_text, new_matches) is called
ChainCall(new_text) ==
    /\ pc = "idle"
    /\ current' = new_text
    /\ resp' = NoResp
    /\ accepted' = "none"
    /\ pc' = "rule1"
    /\ UNCHANGED <<clipboard, last, running, auto_terminate, pretrusted, now,
                   last_user_copy_ts, before, filtered, events, notes, writes, procOps,
                   crash, trustVars, callerVars>>

\* _should_accept_new has returned `accepted`
ChainReturn ==
    /\ pc \in {"accept", "attribute", "reread"}
    /\ pc' = "idle"
    /\ UNCHANGED <<clipboard, last, running, current, auto_terminate, pretrusted, now,
                   last_user_copy_ts, resp, accepted, before, filtered, events, notes,
                   writes, procOps, crash, trustVars, callerVars>>

-----------------------------------------------------------------------------
(* trust_db.py, call by call: one process that uses the module and is restarted *)

\* nothing has been called yet
NoCall == [name |-> "none", args |-> <<>>, result |-> <<>>]

\* what a call leaves alone: the monitor and the stepwise callers
ApiFrame ==
    UNCHANGED <<monitorVars, tpc, th, lockHolder, tval, saveFailed, stop_called,
                current_modifiers>>

\* add_trusted(value); outcome is what open() and json.dump() do if it saves
ApiAdd(value, outcome) ==
    /\ SetStore(add_trusted(Store, value, MonitorObj, outcome))
    /\ api' = [name |-> "add_trusted", args |-> <<value, outcome>>, result |-> <<>>]
    /\ ApiFrame

\* is_trusted(value)
ApiIsTrusted(value) ==
    LET r == is_trusted(Store, value, MonitorObj)
    IN  /\ SetStore(r[2])
        /\ api' = [name |-> "is_trusted", args |-> <<value>>, result |-> <<r[1]>>]
        /\ ApiFrame

\* save_trusted(hashes), then load_trusted()
ApiSaveLoad(hashes) ==
    LET st == save_trusted(Store, hashes, "ok")
    IN  /\ SetStore(st)
        /\ api' = [name |-> "save_load", args |-> <<hashes>>,
                   result |-> <<load_trusted(st.file)>>]
        /\ ApiFrame

\* the process ends and the module is imported again: the file is what remains
ApiImport ==
    /\ trusted_hashes' = 0
    /\ heap' = [o \in ObjIds |-> {}]
    /\ api' = [name |-> "import", args |-> <<>>, result |-> <<>>]
    /\ UNCHANGED trust_file
    /\ ApiFrame

-----------------------------------------------------------------------------
(* detector.py and attributor.py, call by call: the arguments are chosen first *)

\* the words of a test text
DetectWords == {"hello", "0xAA", "0xBB", "a@b.cc", "x@y.z.io"}

\* the longest test text, in words
MaxWords == 2

DetectTexts == UNION {[1..n -> DetectWords] : n \in 0..MaxWords}

\* the processes of a test snapshot
MaxPids == 3

\* the largest top_k asked for
MaxTopK == 3

\* write_bytes and cpu_time (in tenths of a second) a test snapshot reports
TestLoads == {<<0, 1>>, <<1000, 1>>, <<1000, 50>>}

\* snapshots of some of the processes 1..MaxPids
TestSnaps ==
    UNION { { [pid \in P |-> Metric(pid, f[pid][1], f[pid][2])] : f \in [P -> TestLoads] }
            : P \in SUBSET (1..MaxPids) }

\* a call that has been set up and not made yet
Pending(fn, args) == [name |-> "pending", args |-> <<fn>> \o args, result |-> <<>>]

\* what these calls leave alone: everything but the record of the call
PureFrame ==
    UNCHANGED <<monitorVars, trustVars, tpc, th, lockHolder, tval, saveFailed, stop_called,
                current_modifiers>>

\* is_suspicious_change(prev_text, new_text)
ApiClassify ==
    /\ api.name = "pending"
    /\ api.args[1] = "is_suspicious_change"
    /\ api' = [name |-> "is_suspicious_change",
               args |-> <<api.args[2], api.args[3]>>,
               result |-> is_suspicious_change(api.args[2], api.args[3])]
    /\ PureFrame

\* compute_deltas(before, after)
ApiDeltas ==
    /\ api.name = "pending"
    /\ api.args[1] = "compute_deltas"
    /\ \E r \in compute_deltas(api.args[2], api.args[3]) :
           api' = [name |-> "compute_deltas",
                   args |-> <<api.args[2], api.args[3]>>,
                   result |-> r]
    /\ PureFrame

\* identify_suspects(top_k=...), with the two snapshots it takes
ApiSuspects ==
    /\ api.name = "pending"
    /\ api.args[1] = "identify_suspects"
    /\ \E r \in identify_suspects(api.args[2], api.args[3], api.args[4]) :
           api' = [name |-> "identify_suspects",
                   args |-> <<api.args[2], api.args[3], api.args[4]>>,
                   result |-> r]
    /\ PureFrame

-----------------------------------------------------------------------------
(* monitor.back.py: one pass of the loop of the superseded ClipboardGuardCore *)

\* the suspect lists identify_suspects can return once the first snapshot was b
SuspectLists(b) == UNION {identify_suspects(b, a, ATTRIBUTION_TOP_K) : a \in Snapshots}

\* of those, one for each list that filtering can leave
PairSuspects(b) ==
    {CHOOSE s \in SuspectLists(b) : FilterSuspects(s) = f :
        f \in {FilterSuspects(s) : s \in SuspectLists(b)}}

\* what the collaborators answer during one tick: the baseline the tick starts
\* from, the text another process put on the clipboard, whether the two reads
\* succeed, what identify_suspects does, which call of log_event fails (0: none),
\* whether pyperclip.copy succeeds, what psutil does
Responses ==
    UNION {{R \in [baseline : {HELLO, ADDR_A}, change : ClipTexts, read_ok : BOOLEAN,
                   attribution_raises : BOOLEAN, before : {b},
                   suspects : PairSuspects(b), log_fails : 0..3, restored : BOOLEAN,
                   terminate : {"terminated_gracefully", "terminate_raised"},
                   reread_ok : BOOLEAN] :
               R.change # R.baseline} : b \in Snapshots}

\* start() of monitor.back.py, one pass of the loop under the responses R: the
\* rows logged, the values written to the clipboard, _last afterwards, and the
\* call whose exception left start()
BackTick(R) ==
    LET prev == R.baseline
        cur == IF R.read_ok THEN R.change ELSE <<>>
        cls == is_suspicious_change(prev, cur)
        types == TypesOf(cls[2])
        flt == FilterSuspects(R.suspects)
        ws == IF R.restored THEN <<prev>> ELSE <<>>
        clip == IF R.restored THEN prev ELSE R.change
        tr == TerminateResult(R.terminate)
        e1 == <<Event("suspicious_change", prev, cur, types, flt, <<>>)>>
        e2 == Append(e1, IF R.restored
                         THEN Event("restored", prev, cur, types, <<>>, <<"restored">>)
                         ELSE Event("restore_failed", prev, cur, types, <<>>, <<>>))
        e3 == Append(e2, Event(IF tr[1] THEN "terminated" ELSE "terminate_failed",
                               prev, cur, <<>>, <<>>, <<tr[2]>>))
        Left(evs, w, call) ==
            [events |-> evs, writes |-> w, last |-> prev, crash |-> call]
        Closing(evs, w, c) ==
            IF R.reread_ok
            THEN [events |-> evs, writes |-> w, last |-> c, crash |-> "none"]
            ELSE Left(evs, w, "paste")
    IN  IF cur = prev THEN [events |-> <<>>, writes |-> <<>>, last |-> prev, crash |-> "none"]
        ELSE IF ~cls[1] THEN Closing(<<>>, <<>>, R.change)
        ELSE IF R.attribution_raises THEN Left(<<>>, <<>>, "identify_suspects")
        ELSE IF R.log_fails = 1 THEN Left(<<>>, <<>>, "log_event")
        ELSE IF R.log_fails = 2 THEN Left(e1, ws, "log_event")
        ELSE IF auto_terminate /\ flt # <<>>
        THEN IF R.log_fails = 3 THEN Left(e2, ws, "log_event") ELSE Closing(e3, ws, clip)
        ELSE Closing(e2, ws, clip)

\* the same tick seen from outside the current monitor
Observed == [events |-> events, writes |-> writes, last |-> last, crash |-> crash]

-----------------------------------------------------------------------------
(* The specifications *)

CallersIdle ==
    /\ tpc = [t \in Callers |-> "idle"]
    /\ th = [t \in Callers |-> 0]
    /\ tval = [t \in Callers |-> <<>>]
    /\ saveFailed = [t \in Callers |-> FALSE]
    /\ lockHolder = 0
    /\ stop_called = FALSE
    /\ current_modifiers = {}

\* the trust files a monitor finds on disk: a damaged one, or one that holds a hash
InitFiles == {CorruptFile, ValidFile({Hash(ADDR_A)})}

\* config.py as shipped, and with auto-terminate on and a preloaded address
Configs == {[auto_terminate |-> FALSE, pretrusted |-> <<>>],
            [auto_terminate |-> TRUE, pretrusted |-> <<ADDR_B>>]}

\* the module globals at import, and a fresh monitor's fields apart from the baseline
Fresh ==
    /\ running = FALSE
    /\ current = <<>>
    /\ \E c \in Configs : auto_terminate = c.auto_terminate /\ pretrusted = c.pretrusted
    /\ trusted_hashes = 0
    /\ heap = [o \in ObjIds |-> {}]
    /\ now = 1
    /\ last_user_copy_ts = 0
    /\ resp = NoResp
    /\ accepted = "none"
    /\ before = <<>>
    /\ filtered = <<>>
    /\ events = <<>>
    /\ notes = <<>>
    /\ writes = <<>>
    /\ procOps = <<>>
    /\ crash = "none"
    /\ CallersIdle

\* __init__: the baseline is the clipboard, or "" when it cannot be read
Init ==
    /\ clipboard = HELLO
    /\ last \in {clipboard, <<>>}
    /\ pc = "constructed"
    /\ trust_file \in InitFiles
    /\ Fresh
    /\ api = NoCall

\* the monitor thread and what goes on around it, at one reading of the clock
Next ==
    \/ Start
    \/ Stop
    \/ LoopExit
    \/ \E ok \in BOOLEAN : TickRead(ok)
    \/ \E raises \in BOOLEAN : Rule1(raises)
    \/ Rule2
    \/ \E raises \in BOOLEAN, outcome \in AddOutcomes : Rule3(raises, outcome)
    \/ \E available \in BOOLEAN : Rule4(available)
    \/ \E answer \in BOOLEAN, outcome \in AddOutcomes : PromptAnswer(answer, outcome)
    \/ \E logged \in BOOLEAN : Accept(logged)
    \/ \E raises \in BOOLEAN : AttributeBegin(raises)
    \/ \E logged \in BOOLEAN : AttributeEnd(logged)
    \/ \E restored \in BOOLEAN, logged \in BOOLEAN : Restore(restored, logged)
    \/ \E outcome \in TerminateOutcomes, logged \in BOOLEAN : Terminate(outcome, logged)
    \/ \E ok \in BOOLEAN : Reread(ok)
    \/ \E v \in ClipTexts : ClipboardWrite(v)
    \/ UserCopyGesture

Spec == Init /\ [][Next]_vars

\* the steps of the thread that runs start(), once it is in the loop
LoopStep ==
    \/ LoopExit
    \/ \E ok \in BOOLEAN : TickRead(ok)
    \/ \E raises \in BOOLEAN : Rule1(raises)
    \/ Rule2
    \/ \E raises \in BOOLEAN, outcome \in AddOutcomes : Rule3(raises, outcome)
    \/ \E available \in BOOLEAN : Rule4(available)
    \/ \E answer \in BOOLEAN, outcome \in AddOutcomes : PromptAnswer(answer, outcome)
    \/ \E logged \in BOOLEAN : Accept(logged)
    \/ \E raises \in BOOLEAN : AttributeBegin(raises)
    \/ \E logged \in BOOLEAN : AttributeEnd(logged)
    \/ \E restored \in BOOLEAN, logged \in BOOLEAN : Restore(restored, logged)
    \/ \E outcome \in TerminateOutcomes, logged \in BOOLEAN : Terminate(outcome, logged)
    \/ \E ok \in BOOLEAN : Reread(ok)

\* the monitor with a thread that keeps being scheduled: every sleep, snapshot
\* window and prompt it is in comes to an end
InitStop ==
    /\ Init
    /\ last = clipboard
    /\ auto_terminate
    /\ trust_file = CorruptFile

\* the monitor, a second thread that calls stop() at any time, and one attacker
NextStop ==
    \/ Start
    \/ Stop
    \/ StopEarly
    \/ LoopStep
    \/ ClipboardWrite(ADDR_A)
    \/ UserCopyGesture

SpecStop == InitStop /\ [][NextStop]_vars /\ WF_vars(Start) /\ WF_vars(LoopStep)

\* the monitor with auto-terminate on, on a machine whose trust file is damaged
InitIntent ==
    /\ Init
    /\ last = clipboard
    /\ auto_terminate
    /\ trust_file = CorruptFile

\* the monitor with collaborators that do not fail, the keyboard listener it
\* started, another process that writes an address, the clock, and a thread
\* that calls stop()
NextIntent ==
    \/ Start
    \/ Stop
    \/ LoopExit
    \/ TickRead(TRUE)
    \/ Rule1(FALSE)
    \/ Rule2
    \/ \E raises \in BOOLEAN : Rule3(raises, "ok")
    \/ \E available \in BOOLEAN : Rule4(available)
    \/ \E answer \in BOOLEAN : PromptAnswer(answer, "ok")
    \/ Accept(TRUE)
    \/ AttributeBegin(FALSE)
    \/ AttributeEnd(TRUE)
    \/ Restore(TRUE, TRUE)
    \/ Terminate("terminated_gracefully", TRUE)
    \/ Reread(TRUE)
    \/ \E key \in Keys : KeyPress(key)
    \/ \E key \in Keys : KeyRelease(key)
    \/ ClipboardWrite(ADDR_A)
    \/ TimePasses

SpecIntent == InitIntent /\ [][NextIntent]_vars

\* a monitor whose collaborators will answer as api.args says, on a clipboard
\* that another process has just changed
InitPair ==
    /\ api \in {[name |-> "tick", args |-> R, result |-> <<>>] : R \in Responses}
    /\ clipboard = api.args.change
    /\ last = api.args.baseline
    /\ pc = "constructed"
    /\ trust_file = CorruptFile
    /\ running = FALSE
    /\ current = <<>>
    /\ \E c \in Configs : auto_terminate = c.auto_terminate /\ pretrusted = c.pretrusted
    /\ trusted_hashes = 0
    /\ heap = [o \in ObjIds |-> {}]
    /\ now = 1
    /\ last_user_copy_ts = 0
    /\ resp = NoResp
    /\ accepted = "none"
    /\ before = <<>>
    /\ filtered = <<>>
    /\ events = <<>>
    /\ notes = <<>>
    /\ writes = <<>>
    /\ procOps = <<>>
    /\ crash = "none"
    /\ CallersIdle

\* the current monitor runs one tick under those answers (the trust chain, which
\* monitor.back.py does not have, answers as it likes); stop() is called during
\* the tick, so that the loop is left when the tick is over
NextPair ==
    \/ Start
    \/ pc # "sleep" /\ Stop
    \/ LoopExit
    \/ TickRead(api.args.read_ok)
    \/ \E raises \in BOOLEAN : Rule1(raises)
    \/ Rule2
    \/ \E raises \in BOOLEAN, outcome \in AddOutcomes : Rule3(raises, outcome)
    \/ \E available \in BOOLEAN : Rule4(available)
    \/ \E answer \in BOOLEAN, outcome \in AddOutcomes : PromptAnswer(answer, outcome)
    \/ ~running /\ Accept(api.args.log_fails # 1)
    \/ AttributeBegin(api.args.attribution_raises) /\ before' \in {<<>>, api.args.before}
    \/ AttributeEnd(api.args.log_fails # 1) /\ filtered' = FilterSuspects(api.args.suspects)
    \/ Restore(api.args.restored, api.args.log_fails # 2)
    \/ Terminate(api.args.terminate, api.args.log_fails # 3)
    \/ ~running /\ Reread(api.args.reread_ok)

SpecPair == InitPair /\ [][NextPair]_vars

\* a caller of _should_accept_new, with no monitor loop around it
InitChain ==
    /\ clipboard = <<>>
    /\ last = <<>>
    /\ pc = "idle"
    /\ trust_file \in InitFiles \cup {MissingFile}
    /\ Fresh
    /\ api = NoCall

\* _should_accept_new called again and again while gestures arrive and time passes
NextChain ==
    \/ \E new_text \in ClipTexts : ChainCall(new_text)
    \/ \E raises \in BOOLEAN : Rule1(raises)
    \/ Rule2
    \/ \E raises \in BOOLEAN, outcome \in AddOutcomes : Rule3(raises, outcome)
    \/ \E available \in BOOLEAN : Rule4(available)
    \/ \E answer \in BOOLEAN, outcome \in AddOutcomes : PromptAnswer(answer, outcome)
    \/ ChainReturn
    \/ UserCopyGesture
    \/ TimePasses

SpecChain == InitChain /\ [][NextChain]_vars

\* two threads that call add_trusted, no monitor running
InitTrust ==
    /\ clipboard = <<>>
    /\ last = <<>>
    /\ pc = "constructed"
    /\ trust_file \in InitFiles \cup {MissingFile}
    /\ Fresh
    /\ api = NoCall

NextTrust ==
    \E t \in Callers :
        \/ \E v \in ClipTexts : AddCall(t, v)
        \/ GetCheck(t)
        \/ GetLoad(t)
        \/ GetAssign(t)
        \/ GetReturn(t)
        \/ AddMember(t)
        \/ AddInsert(t)
        \/ SaveAcquire(t)
        \/ \E ok \in BOOLEAN : SaveOpen(t, ok)
        \/ \E ok \in BOOLEAN : SaveDump(t, ok)
        \/ AddReturn(t)

SpecTrust == InitTrust /\ [][NextTrust]_vars

\* the sets of hashes a caller hands to save_trusted
HashSets == SUBSET {Hash(v) : v \in ClipTexts}

\* one process that calls trust_db, ends and starts again, no monitor running
InitStore ==
    /\ clipboard = <<>>
    /\ last = <<>>
    /\ pc = "constructed"
    /\ trust_file \in InitFiles \cup {MissingFile}
    /\ Fresh
    /\ api = NoCall

NextStore ==
    \/ \E v \in ClipTexts, outcome \in SaveOutcomes : ApiAdd(v, outcome)
    \/ \E v \in ClipTexts : ApiIsTrusted(v)
    \/ \E hashes \in HashSets : ApiSaveLoad(hashes)
    \/ ApiImport

SpecStore == InitStore /\ [][NextStore]_vars

\* a caller of the detector and the attributor with its arguments ready
InitPure ==
    /\ clipboard = <<>>
    /\ last = <<>>
    /\ pc = "constructed"
    /\ trust_file = MissingFile
    /\ Fresh
    /\ \/ \E p \in DetectTexts, n \in DetectTexts :
              api = Pending("is_suspicious_change", <<p, n>>)
       \/ \E b \in TestSnaps, a \in TestSnaps :
              api = Pending("compute_deltas", <<b, a>>)
       \/ \E b \in TestSnaps, a \in TestSnaps, top_k \in 0..MaxTopK :
              api = Pending("identify_suspects", <<b, a, top_k>>)

NextPure ==
    \/ ApiClassify
    \/ ApiDeltas
    \/ ApiSuspects

SpecPure == InitPure /\ [][NextPure]_vars

-----------------------------------------------------------------------------
(* Properties of the monitor loop *)

\* the event names of this tick, in order
Kinds == [i \in DOMAIN events |-> events[i].kind]

\* the tick that started last is over
TickOver == pc \in {"sleep", "stopped", "crashed"}

\* the tick that started last flagged the change and logged it
SuspiciousTick == events # <<>> /\ events[1].kind = "suspicious_change"

\* the processes of this machine that WHITELIST_NAMES covers: Explorer.EXE by its
\* name, svc by the basename svchost.exe of its path
WhitelistedPids == {2, 4}

\* C1: after a tick that rejected a changed value and flagged it suspicious, the
\* baseline is not that value, whether the restore succeeded or failed.
C1_BaselineNotAdvanced ==
    (pc = "sleep" /\ SuspiciousTick) => last # events[1].new

\* C2: in a tick that flags a hostile replacement and whose clipboard.set succeeds,
\* the loop emits suspicious_change and then restored, and the tick ends with the
\* clipboard and the baseline both holding the value the baseline had before; this
\* is stated for the ticks whose closing clipboard read succeeds.
C2_ReplacementReverted ==
    [][(pc = "reread" /\ pc' = "sleep" /\ writes # <<>> /\ last' = clipboard')
         => (/\ Len(events) >= 2
             /\ events[1].kind = "suspicious_change"
             /\ events[2].kind = "restored"
             /\ clipboard' = events[1].prev
             /\ last' = events[1].prev)]_vars

\* C3: when _should_accept_new returned true, the tick emits exactly one
\* accepted_trusted event and no other, the baseline becomes the new value and the
\* clipboard is not written.
C3_AcceptAdoptsValue ==
    (TickOver /\ accepted = "yes")
        => /\ Kinds = <<"accepted_trusted">>
           /\ last = current
           /\ writes = <<>>

\* C7: the loop is never left through an exception of a collaborator: start() is
\* running, or stop() has ended it.
C7_LoopNeverDies == pc # "crashed"

\* neither the monitor itself nor a whitelisted process
Reportable(pid) == pid # SelfPid /\ pid \notin WhitelistedPids

\* C8: the suspects of the suspicious_change event, of the notifications and the
\* target of process control never include the monitor's own pid nor a whitelisted
\* process.
C8_SuspectsFiltered ==
    /\ \A i \in DOMAIN filtered : Reportable(filtered[i].pid)
    /\ \A e \in DOMAIN events : \A i \in DOMAIN events[e].suspects :
            Reportable(events[e].suspects[i].pid)
    /\ \A n \in DOMAIN notes : \A i \in DOMAIN notes[n].suspects :
            Reportable(notes[n].suspects[i].pid)
    /\ \A o \in DOMAIN procOps : Reportable(procOps[o].pid)

\* C8: a suspicious tick that is about to terminate the one suspect left of the
\* three top-ranked candidates; the other two were the monitor or whitelisted
C8_Witness ==
    /\ pc = "terminate"
    /\ SuspiciousTick
    /\ Len(filtered) = 1
    /\ filtered[1].pid = 3
    /\ events[1].suspects = filtered
    /\ notes[1].suspects = filtered

-----------------------------------------------------------------------------
(* Properties of _should_accept_new *)

Consulted(rule) == resp[rule] # "-"

SomeRuleAccepted ==
    \/ resp.store = "hit"
    \/ resp.pretrusted = "hit"
    \/ resp.intent = "yes"
    \/ resp.confirm = "yes"

\* C4: the rules are consulted in the order trust store, pre-trusted list, user-copy
\* signal, confirmation; nothing is consulted after a rule accepted; the result is
\* true iff some rule accepted; a rule's answer is what its collaborator holds.
C4_OrderedShortCircuit ==
    /\ Consulted("pretrusted") => Consulted("store")
    /\ Consulted("intent") => Consulted("pretrusted")
    /\ Consulted("confirm") => Consulted("intent")
    /\ resp.store = "hit"
         => ~Consulted("pretrusted") /\ ~Consulted("intent") /\ ~Consulted("confirm")
    /\ resp.pretrusted = "hit" => ~Consulted("intent") /\ ~Consulted("confirm")
    /\ resp.intent = "yes" => ~Consulted("confirm")
    /\ pc = "prompt"
         => resp.store \in {"miss", "raise"} /\ resp.pretrusted = "miss"
            /\ resp.intent \in {"no", "raise"}
    /\ accepted = "yes" <=> SomeRuleAccepted
    /\ accepted = "no" => Consulted("confirm")
    /\ resp.store = "hit" => Hash(current) \in TrustSet(Store)
    /\ Consulted("pretrusted")
         => (resp.pretrusted = "hit" <=> \E i \in DOMAIN pretrusted : pretrusted[i] = current)
    /\ resp.intent = "yes" => last_user_copy_ts # 0

\* C4: all four rules were consulted and the last one accepted
C4_Witness ==
    /\ pc = "accept"
    /\ accepted = "yes"
    /\ resp.store = "miss"
    /\ resp.pretrusted = "miss"
    /\ resp.intent = "no"
    /\ resp.confirm = "yes"

\* C5 as stated: every step of the chain leaves the pre-trusted list alone; the step
\* that accepts through rule 3 or rule 4 makes the trust set the previous set plus
\* the hash of the new text, and every other step leaves the trust set unchanged.
C5_FrameAsStated ==
    [][(pc \in ChainPcs)
         => (/\ pretrusted' = pretrusted
             /\ IF pc' = "accept" /\ pc \in {"rule3", "prompt"}
                THEN TrustSet(Store)' = TrustSet(Store) \cup {Hash(current)}
                ELSE TrustSet(Store)' = TrustSet(Store))]_vars

\* C5, amended: as above when add_trusted returns; when add_trusted raises the value
\* is accepted all the same and the trust set is unchanged. The trust set is the set
\* is_trusted consults.
C5_Frame ==
    [][(pc \in ChainPcs)
         => (/\ pretrusted' = pretrusted
             /\ IF pc' = "accept" /\ pc \in {"rule3", "prompt"} /\ resp'.add # "raise"
                THEN TrustSet(Store)' = TrustSet(Store) \cup {Hash(current)}
                ELSE TrustSet(Store)' = TrustSet(Store))]_vars

\* C5: rule 3 accepted a value and its hash joined a trust set that held another
C5_Witness ==
    /\ pc = "accept"
    /\ resp.intent = "yes"
    /\ resp.add = "ok"
    /\ Hash(current) \in TrustSet(Store)
    /\ Cardinality(TrustSet(Store)) >= 2

\* C6: whatever fails, the chain does not raise and answers yes or no; a rule that
\* failed counts as not accepting and the next rule is consulted; a failing
\* add_trusted does not change the answer.
C6_FailuresAbstain ==
    /\ crash = "none"
    /\ accepted \in {"none", "yes", "no"}
    /\ pc \notin ChainPcs /\ resp # NoResp => accepted \in {"yes", "no"}
    /\ resp.store = "raise" => pc = "rule2" \/ Consulted("pretrusted")
    /\ resp.intent = "raise" => pc \in {"rule4", "prompt"} \/ Consulted("confirm")
    /\ resp.confirm = "unavailable" => accepted = "no"
    /\ Consulted("add") => accepted = "yes"
    /\ accepted = "no"
         => /\ resp.store \in {"miss", "raise"}
            /\ resp.pretrusted = "miss"
            /\ resp.intent \in {"no", "raise"}
            /\ resp.confirm \in {"no", "unavailable"}

\* C6: the store and the signal raised and the dialog could not be shown: rejected
C6_Witness ==
    /\ pc = "idle"
    /\ accepted = "no"
    /\ resp.store = "raise"
    /\ resp.intent = "raise"
    /\ resp.confirm = "unavailable"

-----------------------------------------------------------------------------
(* Properties of trust_db *)

\* C9: once two concurrent add_trusted calls have both completed, with every save
\* having worked, both hashes are in the in-memory set and in the file.
C9_NoLostAddition ==
    ((\A t \in Callers : tpc[t] = "done") /\ (\A t \in Callers : ~saveFailed[t]))
        => \A t \in Callers :
              /\ Hash(tval[t]) \in heap[trusted_hashes]
              /\ Hash(tval[t]) \in load_trusted(trust_file)

\* C10: when a save has failed and no save is under way, the file is a complete
\* one: it is not empty or cut short.
C10_SaveAtomic ==
    (lockHolder = 0 /\ \E t \in Callers : saveFailed[t]) => trust_file.kind # "truncated"

\* C11: when the save inside add_trusted(V) fails, the cached set does not hold
\* hash(V) after the call.
C11_FailedSaveNotCached ==
    [][(/\ api'.name = "add_trusted"
        /\ api'.args[2] # "ok"
        /\ Hash(api'.args[1]) \notin TrustSet(Store))
       => (Hash(api'.args[1]) \notin TrustSet(Store)')]_vars

\* C12: an add_trusted(V) that saves, made while the file is missing or damaged,
\* leaves a file that holds exactly hash(V).
C12_NextAddReplaces ==
    [][(/\ api'.name = "add_trusted"
        /\ api'.args[2] = "ok"
        /\ trust_file.kind # "valid"
        /\ Hash(api'.args[1]) \notin TrustSet(Store))
       => (load_trusted(trust_file') = {Hash(api'.args[1])})]_vars

\* C13: an add_trusted(V) made on an empty trust store leaves is_trusted true for
\* V and false for every other value; calling add_trusted(V) again changes
\* nothing; and load_trusted after save_trusted(S) returns S.
C13_AddTrustsOnlyThat ==
    [][(/\ (api'.name = "add_trusted" /\ TrustSet(Store) = {})
            => (\A v2 \in ClipTexts :
                   is_trusted(Store', v2, MonitorObj)[1] <=> (v2 = api'.args[1]))
        /\ (api'.name = "add_trusted")
            => (\A o \in SaveOutcomes :
                   add_trusted(Store', api'.args[1], MonitorObj, o) = Store')
        /\ (api'.name = "save_load") => (api'.result = api'.args))]_vars

\* an add_trusted on an empty store has returned and its hash is the only one
C13_Witness ==
    /\ api.name = "add_trusted"
    /\ trusted_hashes # 0
    /\ heap[trusted_hashes] = {Hash(api.args[1])}
    /\ load_trusted(trust_file) = {Hash(api.args[1])}

\* the elements of the sets in memory and of the file
StoredElements == (UNION {heap[o] : o \in ObjIds}) \cup ToSet(trust_file.hashes)

\* C14: every element of the in-memory trust set and of the trust file is the
\* sha256 hash of a value, never the clipboard text itself.
C14_OnlyHashes ==
    \A h \in StoredElements :
        /\ Len(h) = 2
        /\ h[1] = "sha256"
        /\ h[2] \in ClipTexts
        /\ h \notin Texts

\* an approved value's hash is in the set and in the file
C14_Witness ==
    /\ api.name = "add_trusted"
    /\ trusted_hashes # 0
    /\ Hash(api.args[1]) \in heap[trusted_hashes]
    /\ Hash(api.args[1]) \in ToSet(trust_file.hashes)
    /\ Cardinality(StoredElements) > 1

\* C15: no step takes a hash out of the set is_trusted consults.
C15_TrustOnlyGrows == [][TrustSet(Store) \subseteq TrustSet(Store)']_vars

-----------------------------------------------------------------------------
(* Properties of the detector and the attributor *)

\* the strings matched in a text, whatever the pattern group
StringsIn(text) ==
    LET ms == find_sensitive_matches(text) IN {ms[i][2] : i \in DOMAIN ms}

\* C16: is_suspicious_change(prev, new) is (False, []) when new has no match; is
\* suspicious when new has matches and prev has none; when both have matches it is
\* suspicious exactly when the sets of matched strings differ; it is never
\* suspicious for prev = new; its second component is find_sensitive_matches(new).
C16_DecisionTable ==
    (api.name = "is_suspicious_change") =>
        LET prev == api.args[1]
            new == api.args[2]
            none_prev == find_sensitive_matches(prev) = <<>>
            none_new == find_sensitive_matches(new) = <<>>
        IN  /\ none_new => (api.result = <<FALSE, <<>>>>)
            /\ (~none_new /\ none_prev) => (api.result[1] = TRUE)
            /\ (~none_new /\ ~none_prev)
                => (api.result[1] <=> (StringsIn(prev) # StringsIn(new)))
            /\ (prev = new) => (api.result[1] = FALSE)
            /\ api.result[2] = find_sensitive_matches(new)

\* the same address twice was replaced by that address once: the lists of matches
\* differ, the sets of strings do not, and the change was not flagged
C16_Witness ==
    /\ api.name = "is_suspicious_change"
    /\ api.args[1] = <<"0xAA", "0xAA">>
    /\ api.args[2] = <<"0xAA">>
    /\ api.result[1] = FALSE
    /\ Len(api.result[2]) = 1

\* x comes strictly before y in descending order of (delta_write, delta_cpu)
Outranks(x, y) ==
    \/ x.delta_write > y.delta_write
    \/ x.delta_write = y.delta_write /\ x.delta_cpu > y.delta_cpu

\* C17: identify_suspects returns at most top_k candidates in descending order of
\* (delta_write, delta_cpu), and no candidate it leaves out ranks above one it
\* returns.
C17_TopKSorted ==
    (api.name = "identify_suspects") =>
        LET r == api.result
            top_k == api.args[3]
            all == Candidates(api.args[1], api.args[2])
            returned == {r[i] : i \in DOMAIN r}
        IN  /\ Len(r) <= top_k
            /\ returned \subseteq all
            /\ Cardinality(returned) = Len(r)
            /\ Len(r) = top_k \/ returned = all
            /\ \A i, j \in DOMAIN r : (i < j) => ~Outranks(r[j], r[i])
            /\ \A c \in all \ returned : \A i \in DOMAIN r : ~Outranks(c, r[i])

\* P2 with (1000, 5.0) was returned before P1 with (1000, 0.1), and a third
\* candidate was left out
C17_Witness ==
    /\ api.name = "identify_suspects"
    /\ api.args[3] = 2
    /\ Len(api.result) = 2
    /\ api.result[1].delta_write = 1000 /\ api.result[1].delta_cpu = 50
    /\ api.result[2].delta_write = 1000 /\ api.result[2].delta_cpu = 1
    /\ Cardinality(Candidates(api.args[1], api.args[2])) = 3

\* C18: compute_deltas returns one candidate for each pid of either snapshot, with
\* delta = max(0, after - before) for write_bytes and for cpu_time, a pid that a
\* snapshot lacks counting as 0 there.
C18_DeltasClamped ==
    (api.name = "compute_deltas") =>
        LET b == api.args[1]
            a == api.args[2]
            r == api.result
            pids == (DOMAIN b) \cup (DOMAIN a)
        IN  /\ {r[i].pid : i \in DOMAIN r} = pids
            /\ Len(r) = Cardinality(pids)
            /\ \A i \in DOMAIN r :
                   LET pid == r[i].pid
                       wb == IF pid \in DOMAIN b THEN b[pid].write_bytes ELSE 0
                       wa == IF pid \in DOMAIN a THEN a[pid].write_bytes ELSE 0
                       cb == IF pid \in DOMAIN b THEN b[pid].cpu_time ELSE 0
                       ca == IF pid \in DOMAIN a THEN a[pid].cpu_time ELSE 0
                   IN  /\ r[i].delta_write = (IF wa - wb > 0 THEN wa - wb ELSE 0)
                       /\ r[i].delta_cpu = (IF ca - cb > 0 THEN ca - cb ELSE 0)
                       /\ r[i].delta_write >= 0
                       /\ r[i].delta_cpu >= 0
                       /\ (pid \notin DOMAIN b) => (r[i].delta_write = a[pid].write_bytes)
                       /\ (pid \notin DOMAIN a)
                           => (r[i].delta_write = 0 /\ r[i].delta_cpu = 0)

\* one process appeared, one went away and one wrote less than before
C18_Witness ==
    /\ api.name = "compute_deltas"
    /\ \E p \in DOMAIN api.args[2] \ DOMAIN api.args[1] :
           api.args[2][p].write_bytes > 0
    /\ \E p \in DOMAIN api.args[1] \ DOMAIN api.args[2] :
           api.args[1][p].write_bytes > 0
    /\ \E p \in DOMAIN api.args[1] \cap DOMAIN api.args[2] :
           api.args[2][p].write_bytes < api.args[1][p].write_bytes
    /\ Len(api.result) = 3

-----------------------------------------------------------------------------
(* Properties of stopping and of idle ticks *)

\* C19: once stop() has been called, the loop begins no tick: from the sleep
\* between ticks it reads no clipboard, logs, writes and trusts nothing, and can
\* only leave the loop.
C19_NoTickAfterStop ==
    [][(stop_called /\ pc = "sleep")
       => (/\ pc' \in {"sleep", "stopped"}
           /\ current' = current
           /\ last' = last
           /\ events' = events
           /\ writes' = writes
           /\ trustVars' = trustVars)]_vars

\* a stop() that found the loop running ends it: the tick in progress is
\* finished and the loop is left, by `while self.running` or by an exception
StopWhileRunning == (~running /\ pc # "constructed") ~> (pc \in {"stopped", "crashed"})

\* C20: a tick that reads the baseline value from the clipboard goes straight back
\* to sleep: the baseline and the trust store are unchanged, it logs no event, and
\* it runs no trust rule, no attribution, no notification, no clipboard write and
\* no process control. (The steps meant are those of the running loop out of its
\* sleep in which nobody else writes the clipboard, presses copy or calls stop.)
C20_EqualReadNoOp ==
    [][(/\ pc = "sleep"
        /\ running
        /\ running'
        /\ clipboard' = clipboard
        /\ last_user_copy_ts' = last_user_copy_ts
        /\ current' = last)
       => (/\ pc' = "sleep"
           /\ last' = last
           /\ trustVars' = trustVars
           /\ events' = <<>>
           /\ resp' = NoResp
           /\ accepted' = "none"
           /\ before' = <<>>
           /\ filtered' = <<>>
           /\ notes' = <<>>
           /\ writes' = <<>>
           /\ procOps' = <<>>)]_vars

\* an address became the baseline in an earlier tick and the last tick read it
\* again: that tick left no trace
C20_Witness ==
    /\ pc = "sleep"
    /\ running
    /\ last = ADDR_A
    /\ current = last
    /\ clipboard = last
    /\ events = <<>>
    /\ resp = NoResp
    /\ accepted = "none"

-----------------------------------------------------------------------------
(* Properties of the paths of a tick *)

\* C21: a changed tick that emits no event (the value was neither accepted nor
\* flagged) ends with the baseline equal to the value it read at its start.
C21_BenignAdoptsRead ==
    [][(pc = "reread" /\ pc' = "sleep" /\ events = <<>>) => (last' = current)]_vars

\* C22: a tick that logged suspicious_change has logged, next, exactly one of
\* restored and restore_failed by the time it is over.
C22_RestoreOutcomeLogged ==
    (TickOver /\ SuspiciousTick)
        => /\ Len(events) >= 2
           /\ events[2].kind \in {"restored", "restore_failed"}
           /\ \A i \in DOMAIN events :
                  (events[i].kind \in {"restored", "restore_failed"}) => (i = 2)

\* C23: a tick that called terminate() on a process has logged exactly one of
\* terminated and terminate_failed by the time it is over.
C23_TerminateOutcomeLogged ==
    (TickOver /\ procOps # <<>>)
        => Cardinality({i \in DOMAIN events :
                           events[i].kind \in {"terminated", "terminate_failed"}}) = 1

C25_PromptBlocks ==
    [][(pc = "prompt")
       => (/\ last' = last
           /\ events' = events
           /\ writes' = writes
           /\ current' = current
           /\ procOps' = procOps
           /\ \/ pc' = "prompt" /\ resp' = resp /\ accepted' = accepted
              \/ /\ resp.confirm = "-"
                 /\ resp'.confirm \in {"yes", "no"}
                 /\ pc' \in {"accept", "attribute", "reread"})]_vars

\* the dialog is open, stop() has been called and another process has written the
\* clipboard: the tick is still where it was
C25_Witness ==
    /\ pc = "prompt"
    /\ ~running
    /\ stop_called
    /\ clipboard # current
    /\ events = <<>>

\* C28: the step in which restore_clipboard succeeds leaves the baseline on the
\* clipboard whatever the clipboard held before the step, and the value it
\* overwrote is not examined: the trust chain is not consulted again and every
\* row of the tick is about the value the tick read.
C28_RestoreUnconditional ==
    [][(/\ pc = "restore"
        /\ notes' # notes
        /\ notes'[Len(notes')].title = "restored")
       => (/\ clipboard' = last
           /\ writes' = Append(writes, last)
           /\ last' = last
           /\ resp' = resp
           /\ accepted' = accepted
           /\ trusted_hashes' = trusted_hashes
           /\ \A i \in DOMAIN events' : events'[i].new = current)]_vars

\* the tick read one address and flagged it; while the snapshots were taken
\* another address was put on the clipboard, and the restore is about to run
C28_Witness ==
    /\ pc = "restore"
    /\ SuspiciousTick
    /\ last = HELLO
    /\ current = ADDR_A
    /\ clipboard = ADDR_B

\* C30: every step that ends a tick leaves the baseline equal to the monitor's
\* latest clipboard read: the read that opened the tick where nothing had changed
\* and where the value was accepted, the read that closes the tick otherwise (a
\* failed read counts as the empty text).
C30_BaselineIsLatestRead ==
    [][/\ (/\ pc = "sleep"
           /\ pc' = "sleep"
           /\ running' = running
           /\ clipboard' = clipboard
           /\ last_user_copy_ts' = last_user_copy_ts)
          => (last' = current' /\ current' \in {clipboard, <<>>})
       /\ (pc = "accept" /\ pc' = "sleep") => (last' = current)
       /\ (pc \notin {"sleep", "accept", "constructed"} /\ pc' = "sleep")
          => (pc = "reread" /\ last' \in {clipboard, <<>>})]_vars

\* a tick that flagged an address and restored the clipboard is over: the
\* baseline is what the closing read returned, not what the tick read at first
C30_Witness ==
    /\ pc = "sleep"
    /\ SuspiciousTick
    /\ writes # <<>>
    /\ last = clipboard
    /\ last # current

\* C27: where the only writer of addresses is a process other than the user, the
\* user-intent rule never accepts an address and never adds one to the trust
\* store.
C27_HostileNotAutoTrusted ==
    [][(pc = "rule3" /\ current = ADDR_A)
       => (pc' # "accept" /\ trusted_hashes' = trusted_hashes /\ heap' = heap
           /\ trust_file' = trust_file)]_vars

-----------------------------------------------------------------------------
(* Properties of the user-intent signal *)

\* C26: rule 3 is answered "yes" exactly when a copy gesture has been recorded (the
\* timestamp is not 0) and the timestamp is at most USER_COPY_WINDOW old; every
\* key release that finds a copy combination held stores the present time over
\* whatever was stored; a step that changes the timestamp or the key-state set is
\* a listener step and changes nothing else; no step of the monitor changes the
\* timestamp.
C26_IntentSignal ==
    [][/\ (pc = "rule3" /\ resp.intent = "-" /\ resp'.intent \in {"yes", "no"})
          => ((resp'.intent = "yes")
                <=> (/\ last_user_copy_ts # 0
                     /\ now - last_user_copy_ts <= USER_COPY_WINDOW))
       /\ (/\ current_modifiers' # current_modifiers
           /\ current_modifiers' \subseteq current_modifiers
           /\ \/ {"ctrl", "c"} \subseteq current_modifiers
              \/ {"ctrl", "insert"} \subseteq current_modifiers)
          => (last_user_copy_ts' = now)
       /\ (last_user_copy_ts' # last_user_copy_ts)
          => (last_user_copy_ts' = now /\ now # 0)
       /\ (last_user_copy_ts' # last_user_copy_ts \/ current_modifiers' # current_modifiers)
          => UNCHANGED <<clipboard, last, running, pc, current, resp, accepted, events,
                         notes, writes, procOps, crash, trustVars>>]_vars

\* Ctrl+C was released at time 1 and again at time 2, the C key first; a tick
\* that read an address at time 3 found the second gesture recent and accepted
C26_Witness ==
    /\ pc = "accept"
    /\ resp.intent = "yes"
    /\ now = 3
    /\ last_user_copy_ts = 2
    /\ current_modifiers = {"ctrl"}
    /\ current = ADDR_A

-----------------------------------------------------------------------------
(* Properties of the two monitor variants *)

\* the one tick is over: the loop was left, by stop() or by an exception
TickDone == api.name = "tick" /\ pc \in {"stopped", "crashed"}

\* C24: where the trust chain of monitor.py did not accept the value and the read
\* that closes the tick, if the tick came to it, succeeded, monitor.py and
\* monitor.back.py have logged the same rows in the same order, written the same
\* values to the clipboard, ended with the same baseline and left start() by the
\* same exception or by none.
C24_VariantsAgree ==
    (/\ TickDone
     /\ accepted # "yes"
     /\ api.args.reread_ok \/ pc = "crashed")
        => (Observed = BackTick(api.args))

\* both variants flagged a first sighting that the trust chain had rejected,
\* restored the clipboard, terminated the top suspect and re-read the baseline
C24_Witness ==
    /\ TickDone
    /\ pc = "stopped"
    /\ accepted = "no"
    /\ Kinds = <<"suspicious_change", "restored", "terminated">>
    /\ writes = <<HELLO>>
    /\ last = HELLO
    /\ Observed = BackTick(api.args)

\* C24 as stated: after one clipboard change answered alike, monitor.py and
\* monitor.back.py have logged the same rows, written the same values and ended
\* with the same baseline.
C24_VariantsAgreeAlways ==
    TickDone
        => LET b == BackTick(api.args)
           IN  /\ events = b.events
               /\ writes = b.writes
               /\ last = b.last

-----------------------------------------------------------------------------
(* Properties of the suspects a tick reports *)

ReportableCandidate(c) == Reportable(c.pid)

\* the ways to list the top_k candidates of two snapshots in descending order of
\* (delta_write, delta_cpu): no candidate twice, none below one that ranks lower,
\* none left out that ranks above one listed
TopRankings(b, a) ==
    LET all == Candidates(b, a)
        n == Min(ATTRIBUTION_TOP_K, Cardinality(all))
    IN  {r \in [1..n -> all] :
            /\ \A i, j \in 1..n : (i < j) => (r[i] # r[j] /\ ~Outranks(r[j], r[i]))
            /\ \A c \in all \ {r[i] : i \in 1..n} : \A i \in 1..n : ~Outranks(c, r[i])}

\* what is left of each such list of top_k candidates once the monitor itself and
\* the whitelisted ones are taken out, for each first snapshot of this machine
ReportsOf ==
    [b \in Snapshots |->
        UNION {{SelectSeq(r, ReportableCandidate) : r \in TopRankings(b, a)} :
                 a \in Snapshots}]

\* C31: the suspects a suspicious tick logs are the top_k ranked candidates of its
\* two snapshots without the monitor itself and the whitelisted ones, in ranking
\* order, none added from below the top_k; the notification names the first of
\* them; the sentinel is logged exactly when none of the top_k is left.
C31_ReportedSuspects ==
    [][(pc = "window" /\ pc' = "restore")
       => (LET row == events'[Len(events')]
           IN  /\ filtered' \in ReportsOf[before]
               /\ Len(filtered') <= ATTRIBUTION_TOP_K
               /\ row.kind = "suspicious_change"
               /\ row.suspects = filtered'
               /\ row.sentinel <=> (filtered' = <<>>)
               /\ notes'[Len(notes')].suspects
                      = SubSeq(filtered', 1, Min(1, Len(filtered'))))]_vars

\* the three top-ranked candidates were the monitor and two whitelisted
\* processes: the row logged carries the sentinel and no suspect, and nobody is
\* terminated although auto-terminate is on
C31_Witness ==
    /\ pc = "reread"
    /\ auto_terminate
    /\ SuspiciousTick
    /\ events[1].sentinel
    /\ events[1].suspects = <<>>
    /\ filtered = <<>>
    /\ Kinds = <<"suspicious_change", "restored">>
    /\ procOps = <<>>

====
